---- MODULE Spec2Model ----
(***************************************************************************)
(* Model of the projects+tasks server, src/mcp-task-server-v2.js (lines    *)
(* 1-670): two in-memory arrays, `projects` and `tasks`, and the ten       *)
(* handlers the dispatcher of lines 196-234 routes to; and of the MCP HTTP *)
(* server, src/mcp-http-server.js: the same two arrays and the eight tools *)
(* of executeTool.  A run is a run of one of the two servers.  A request   *)
(* is handled to completion in one step (the handlers are synchronous, so  *)
(* requests never interleave); the next step hands the response over and   *)
(* leaves the server waiting for the next request.                         *)
(*                                                                         *)
(* JavaScript values are represented as follows: strings as strings, with  *)
(* Undefined and Null as two reserved strings; ids (uuidv4 results) as the *)
(* strings "1", "2", ... in generation order; ISO timestamps as the        *)
(* integer reading of the clock; arrays as sequences; an argument bag as a *)
(* record whose DOMAIN is the set of keys present in the request.          *)
(***************************************************************************)
EXTENDS Integers, Sequences, FiniteSets, TLC

\* Bounds of the model.
MaxIds == 3       \* number of uuidv4() calls in a run
MaxIdsDeep == 4   \* the same, for the runs that need two projects with a task each
MaxTime == 1      \* latest reading of the clock
MaxTasks == 200   \* number of tasks of the project of a loaded store
MaxRecent == 6    \* the same, for the store whose tasks were updated at
MaxStamp == 2     \*   times 0..MaxStamp
MaxIdsV1 == 4     \* number of uuidv4() calls in a run of the tasks-only server

VARIABLES
    server,       \* the program that is running
    projects,     \* let projects = []   (v2 line 13, http line 25)
    tasks,        \* let tasks = []      (v2 line 14, http line 26)
    nextId,       \* the number of the next uuidv4() call
    clock,        \* the last value new Date() returned
    req,          \* the tool of the request last handled
    res,          \* what the caller of that request received
    db,           \* the Replit database: whether REPLIT_DB_URL is set, and
                  \* the blobs stored under the keys "projects" and "tasks"
    loading       \* the keys whose db.get(...).then callback has yet to run

vars == <<server, projects, tasks, nextId, clock, req, res, db, loading>>

\* what no request handler assigns
deployment == <<server, db, loading>>

\* the programs
V2 == "mcp-task-server-v2.js"
Http == "mcp-http-server.js"
V1 == "mcp-task-server.js"

----------------------------------------------------------------------------
\* JavaScript values

Undefined == "<undefined>"
Null == "<null>"

\* ToBoolean of a string-valued (or undefined / null) property
Truthy(v) == v \notin {Undefined, Null, ""}

\* args.f, for a key that may be absent
Get(args, f) == IF f \in DOMAIN args THEN args[f] ELSE Undefined

\* args.f !== undefined
Defined(args, f) == f \in DOMAIN args

\* args.f || dflt, for a string-valued property
OrElse(args, f, dflt) ==
    IF f \in DOMAIN args /\ Truthy(args[f]) THEN args[f] ELSE dflt

\* args.tags || []   (an array is truthy even when empty)
TagsOrEmpty(args) == IF "tags" \in DOMAIN args THEN args.tags ELSE <<>>

\* Mutant of uuidv4: an id generator that repeats itself.
uuidRepeating(n) == ToString(n % 2)

\* the value of the n-th uuidv4() call
uuidv4(n) == ToString(n)

\* args.delete_tasks used as a condition
DeleteTasksFlag(args) == "delete_tasks" \in DOMAIN args /\ args.delete_tasks

\* Mutant of find: falls back to the first element (`... || arr[0]`).
findOrFirst(arr, id) ==
    IF \E i \in 1..Len(arr) : arr[i].id = id
    THEN CHOOSE i \in 1..Len(arr) :
            /\ arr[i].id = id
            /\ \A j \in 1..(i - 1) : arr[j].id # id
    ELSE IF Len(arr) > 0 THEN 1 ELSE 0

\* arr.find(x => x.id === id), as the 1-based position of the element found,
\* 0 where JavaScript returns undefined
find(arr, id) ==
    IF \E i \in 1..Len(arr) : arr[i].id = id
    THEN CHOOSE i \in 1..Len(arr) :
            /\ arr[i].id = id
            /\ \A j \in 1..(i - 1) : arr[j].id # id
    ELSE 0

\* Mutant of findIndex: the -1 of a failed search is used as an index, which
\* splice and at() read as the last element.
findIndexOrLast(arr, id) ==
    IF \E i \in 1..Len(arr) : arr[i].id = id
    THEN CHOOSE i \in 1..Len(arr) :
            /\ arr[i].id = id
            /\ \A j \in 1..(i - 1) : arr[j].id # id
    ELSE Len(arr)

\* arr.findIndex(x => x.id === id): the 1-based position of the first match,
\* 0 where JavaScript returns -1
findIndex(arr, id) ==
    IF \E i \in 1..Len(arr) : arr[i].id = id
    THEN CHOOSE i \in 1..Len(arr) :
            /\ arr[i].id = id
            /\ \A j \in 1..(i - 1) : arr[j].id # id
    ELSE 0

\* arr.splice(i, 1) : the array without its i-th element
splice(arr, i) == SubSeq(arr, 1, i - 1) \o SubSeq(arr, i + 1, Len(arr))

----------------------------------------------------------------------------
\* Responses

\* res.json(body) / res.status(code).json(body)
Json(status, body) == [status |-> status, body |-> body, fault |-> FALSE]

NotFound(msg) == Json(404, [error |-> msg])

\* `const saveProjects` and `const saveTasks` are declared inside the block of
\* `if (process.env.REPLIT_DB_URL) { ... }` (lines 18-44), so they are not in
\* scope in the handlers: evaluating `saveProjects` or `saveTasks` there
\* throws a ReferenceError, with or without REPLIT_DB_URL.  A handler that
\* throws before it has responded leaves the caller with the framework's
\* error response (status 500) ...
Thrown == [status |-> 500, body |-> [error |-> "ReferenceError"], fault |-> TRUE]

\* ... and one that throws after res.json has responded leaves the caller
\* with that response followed by a fault (the connection is torn down).
ThrownAfter(r) == [r EXCEPT !.fault = TRUE]

----------------------------------------------------------------------------
\* Sorting.  Numbers are [nan |-> BOOLEAN, v |-> Int], so that NaN is a value.

Num(n) == [nan |-> FALSE, v |-> n]
NaN == [nan |-> TRUE, v |-> 0]

\* x - y
Minus(x, y) == IF x.nan \/ y.nan THEN NaN ELSE Num(x.v - y.v)

\* const priorityOrder = { urgent: 0, high: 1, medium: 2, low: 3 };
priorityOrder == [urgent |-> 0, high |-> 1, medium |-> 2, low |-> 3]

\* priorityOrder[p] as an operand of `-` : a missing key is undefined, and
\* undefined converts to NaN
Rank(p) == IF p \in DOMAIN priorityOrder THEN Num(priorityOrder[p]) ELSE NaN

\* new Date(s) as an operand of `-` : the time value of a date string (in
\* days, for the date strings of the model), NaN for an unparseable one
DateValue(s) ==
    CASE s = "2024-01-01" -> Num(1)
      [] s = "2024-02-01" -> Num(32)
      [] s = "2024-03-01" -> Num(61)
      [] OTHER -> NaN

\* The comparator of handleListProjects and handleListTasks:
\*   if (a.priority !== b.priority) return priorityOrder[a.priority] - priorityOrder[b.priority];
\*   if (a.due_date && b.due_date) return new Date(a.due_date) - new Date(b.due_date);
\*   return 0;
byPriorityAndDueDate(a, b) ==
    IF a.priority # b.priority
    THEN Minus(Rank(a.priority), Rank(b.priority))
    ELSE IF Truthy(a.due_date) /\ Truthy(b.due_date)
         THEN Minus(DateValue(a.due_date), DateValue(b.due_date))
         ELSE Num(0)

\* Mutant of byUpdatedAtDesc: the operands of the subtraction are exchanged.
byUpdatedAtAsc(a, b) == [nan |-> FALSE, v |-> a.updated_at - b.updated_at]

\* The comparator of handleGetProjectSummary:
\*   (a, b) => new Date(b.updated_at) - new Date(a.updated_at)
byUpdatedAtDesc(a, b) == Num(b.updated_at - a.updated_at)

\* Array.prototype.sort calls the comparator and reads NaN as 0.
CallCompare(cmp, a, b) ==
    LET v == IF cmp = "priority" THEN byPriorityAndDueDate(a, b)
             ELSE byUpdatedAtDesc(a, b)
    IN  IF v.nan THEN 0 ELSE v.v

\* Array.prototype.sort as the runtime of the server (Node.js, V8) computes
\* it for arrays shorter than 64 elements: the leading run is found (and
\* reversed when strictly descending), then the rest is placed by binary
\* insertion.  For a consistent comparator this is the stable sort; for an
\* inconsistent one it is the order this runtime produces.
RECURSIVE RunEnd(_, _, _, _)
RunEnd(arr, cmp, descending, idx) ==
    IF idx > Len(arr) THEN idx - 1
    ELSE LET order == CallCompare(cmp, arr[idx], arr[idx - 1])
         IN  IF descending /\ order >= 0 THEN idx - 1
             ELSE IF ~descending /\ order < 0 THEN idx - 1
             ELSE RunEnd(arr, cmp, descending, idx + 1)

Reverse(arr) == [i \in 1..Len(arr) |-> arr[Len(arr) + 1 - i]]

\* the position (0-based) at which binary insertion places pivot in
\* arr[left..right-1]
RECURSIVE BinarySearch(_, _, _, _, _)
BinarySearch(arr, cmp, pivot, left, right) ==
    IF left >= right THEN left
    ELSE LET mid == left + ((right - left) \div 2)
             order == CallCompare(cmp, pivot, arr[mid + 1])
         IN  IF order < 0 THEN BinarySearch(arr, cmp, pivot, left, mid)
             ELSE BinarySearch(arr, cmp, pivot, mid + 1, right)

\* start is the 0-based index of the first element not yet placed
RECURSIVE BinaryInsertionSort(_, _, _)
BinaryInsertionSort(arr, cmp, start) ==
    IF start >= Len(arr) THEN arr
    ELSE LET pivot == arr[start + 1]
             left == BinarySearch(arr, cmp, pivot, 0, start)
             placed == SubSeq(arr, 1, left) \o <<pivot>>
                       \o SubSeq(arr, left + 1, start)
                       \o SubSeq(arr, start + 2, Len(arr))
         IN  BinaryInsertionSort(placed, cmp, start + 1)

sort(arr, cmp) ==
    IF Len(arr) < 2 THEN arr
    ELSE LET descending == CallCompare(cmp, arr[2], arr[1]) < 0
             runLength == RunEnd(arr, cmp, descending, 3)
             run == IF descending
                    THEN Reverse(SubSeq(arr, 1, runLength))
                         \o SubSeq(arr, runLength + 1, Len(arr))
                    ELSE arr
         IN  BinaryInsertionSort(run, cmp, runLength)

----------------------------------------------------------------------------
\* Project handlers.  Each handler is given the argument bag of the request;
\* new Date() reads the clock.

\* the task_counts of handleListProjects (lines 246-254)
taskCounts(project) ==
    LET projectTasks == SelectSeq(tasks, LAMBDA t : t.project_id = project.id)
    IN  [total |-> Len(projectTasks),
         todo |-> Len(SelectSeq(projectTasks, LAMBDA t : t.status = "todo")),
         in_progress |->
             Len(SelectSeq(projectTasks, LAMBDA t : t.status = "in_progress")),
         done |-> Len(SelectSeq(projectTasks, LAMBDA t : t.status = "done"))]

\* the `projects` of the response of handleListProjects
listProjects(args) ==
    LET filtered ==
            IF Truthy(Get(args, "status")) /\ args.status # "all"
            THEN SelectSeq(projects, LAMBDA p : p.status = args.status)
            ELSE projects
        projectsWithCounts ==
            [i \in 1..Len(filtered) |->
                filtered[i] @@ [task_counts |-> taskCounts(filtered[i])]]
    IN  sort(projectsWithCounts, "priority")

handleListProjects(args) ==
    /\ req' = "list_projects"
    /\ res' = Json(200, [projects |-> listProjects(args)])
    /\ UNCHANGED <<projects, tasks, nextId>>

handleCreateProject(args) ==
    /\ LET newProject ==
               [id |-> uuidv4(nextId),
                name |-> Get(args, "name"),
                description |-> OrElse(args, "description", ""),
                status |-> OrElse(args, "status", "todo"),
                priority |-> OrElse(args, "priority", "medium"),
                due_date |-> OrElse(args, "due_date", Null),
                tags |-> TagsOrEmpty(args),
                created_at |-> clock,
                updated_at |-> clock]
       IN  projects' = Append(projects, newProject)
    /\ nextId' = nextId + 1
    /\ req' = "create_project"
    /\ res' = Thrown                      \* if (saveProjects) ...  (line 296)
    /\ UNCHANGED tasks

\* Mutant of assignDefined: status falls back to its default when the request
\* does not carry it (`obj.status = args.status || 'todo'`).
RECURSIVE assignOrDefault(_, _, _)
assignOrDefault(obj, args, fields) ==
    IF fields = <<>> THEN obj
    ELSE LET f == Head(fields)
             next == IF Defined(args, f) THEN [obj EXCEPT ![f] = args[f]]
                     ELSE IF f = "status" THEN [obj EXCEPT ![f] = "todo"]
                     ELSE obj
         IN  assignOrDefault(next, args, Tail(fields))

\* if (args.f !== undefined) obj.f = args.f;   for each f of fields, in order
RECURSIVE assignDefined(_, _, _)
assignDefined(obj, args, fields) ==
    IF fields = <<>> THEN obj
    ELSE LET f == Head(fields)
             next == IF Defined(args, f) THEN [obj EXCEPT ![f] = args[f]]
                     ELSE obj
         IN  assignDefined(next, args, Tail(fields))

\* the fields handleUpdateProject assigns (lines 317-322)
ProjectFields ==
    <<"name", "description", "status", "priority", "due_date", "tags">>

handleUpdateProject(args) ==
    LET projectIndex == findIndex(projects, Get(args, "id"))
    IN  /\ req' = "update_project"
        /\ IF projectIndex = 0
           THEN /\ res' = NotFound("Project not found")
                /\ UNCHANGED <<projects, tasks, nextId>>
           ELSE LET project ==
                        assignDefined(projects[projectIndex], args, ProjectFields)
                IN  /\ projects' =
                           [projects EXCEPT ![projectIndex] =
                               [project EXCEPT !.updated_at = clock]]
                    /\ res' = Thrown      \* if (saveProjects) ...  (line 326)
                    /\ UNCHANGED <<tasks, nextId>>

\* Mutant of tasksOutside: the filter keeps what it should drop.
tasksInside(ts, id) == SelectSeq(ts, LAMBDA t : t.project_id = id)

\* tasks.filter(t => t.project_id !== id)
tasksOutside(ts, id) == SelectSeq(ts, LAMBDA t : t.project_id # id)

handleDeleteProject(args) ==
    LET projectIndex == findIndex(projects, Get(args, "id"))
    IN  /\ req' = "delete_project"
        /\ IF projectIndex = 0
           THEN /\ res' = NotFound("Project not found")
                /\ UNCHANGED <<projects, tasks, nextId>>
           ELSE LET deletedProject == projects[projectIndex]
                IN  /\ projects' = splice(projects, projectIndex)
                    /\ IF DeleteTasksFlag(args)
                       THEN /\ tasks' = tasksOutside(tasks, args.id)
                            /\ res' = Thrown   \* if (saveTasks) ... (line 351)
                       ELSE /\ tasks' = tasks
                            \* res.json(...), then if (saveProjects) ... (line 370)
                            /\ res' = ThrownAfter(
                                   Json(200, [deleted |-> [project |-> deletedProject]]))
                    /\ UNCHANGED nextId

----------------------------------------------------------------------------
\* Task handlers

\* Mutant of projectNameOf: the name cached in the task is returned.
projectNameCached(task) == task.project_name

\* projects.find(p => p.id === task.project_id) ? project.name : 'Unknown Project'
projectNameOf(task) ==
    LET i == find(projects, task.project_id)
    IN  IF i = 0 THEN "Unknown Project" ELSE projects[i].name

\* Mutant of listTasks: the status and priority criteria are not applied.
listTasksOfProject(args) ==
    LET byProject ==
            IF Truthy(Get(args, "project_id"))
            THEN SelectSeq(tasks, LAMBDA t : t.project_id = args.project_id)
            ELSE tasks
        tasksWithProjects ==
            [i \in 1..Len(byProject) |->
                [byProject[i] EXCEPT !.project_name = projectNameOf(byProject[i])]]
    IN  sort(tasksWithProjects, "priority")

\* the `tasks` of the response of handleListTasks
listTasks(args) ==
    LET byProject ==
            IF Truthy(Get(args, "project_id"))
            THEN SelectSeq(tasks, LAMBDA t : t.project_id = args.project_id)
            ELSE tasks
        byStatus ==
            IF Truthy(Get(args, "status")) /\ args.status # "all"
            THEN SelectSeq(byProject, LAMBDA t : t.status = args.status)
            ELSE byProject
        filtered ==
            IF Truthy(Get(args, "priority")) /\ args.priority # "all"
            THEN SelectSeq(byStatus, LAMBDA t : t.priority = args.priority)
            ELSE byStatus
        tasksWithProjects ==
            [i \in 1..Len(filtered) |->
                [filtered[i] EXCEPT !.project_name = projectNameOf(filtered[i])]]
    IN  sort(tasksWithProjects, "priority")

\* Mutant of handleListTasks: the project name is assigned to the task
\* itself (`task.project_name = ...`), not to a copy of it.
handleListTasksInPlace(args) ==
    /\ req' = "list_tasks"
    /\ res' = Json(200, [tasks |-> listTasks(args)])
    /\ tasks' = [i \in 1..Len(tasks) |->
                    [tasks[i] EXCEPT !.project_name = projectNameOf(tasks[i])]]
    /\ UNCHANGED <<projects, nextId>>

handleListTasks(args) ==
    /\ req' = "list_tasks"
    /\ res' = Json(200, [tasks |-> listTasks(args)])
    /\ UNCHANGED <<projects, tasks, nextId>>

\* parent.subtasks.push(id) on the task of ts whose id is parentId, if any
\* (lines 448-453)
linkToParent(ts, parentId, id) ==
    LET i == find(ts, parentId)
    IN  IF i = 0 THEN ts
        ELSE [ts EXCEPT ![i].subtasks = Append(@, id)]

handleCreateTask(args) ==
    LET projectIndex == find(projects, Get(args, "project_id"))
    IN  /\ req' = "create_task"
        /\ IF projectIndex = 0
           THEN /\ res' = NotFound("Project not found")
                /\ UNCHANGED <<projects, tasks, nextId>>
           ELSE /\ LET project == projects[projectIndex]
                       newTask ==
                           [id |-> uuidv4(nextId),
                            title |-> Get(args, "title"),
                            description |-> OrElse(args, "description", ""),
                            project_id |-> args.project_id,
                            project_name |-> project.name,
                            status |-> OrElse(args, "status", "todo"),
                            priority |-> OrElse(args, "priority", "medium"),
                            due_date |-> OrElse(args, "due_date", Null),
                            assignee |-> OrElse(args, "assignee", Null),
                            tags |-> TagsOrEmpty(args),
                            parent_task_id |->
                                OrElse(args, "parent_task_id", Null),
                            created_at |-> clock,
                            updated_at |-> clock,
                            subtasks |-> <<>>]
                       pushed == Append(tasks, newTask)
                   IN  tasks' = IF Truthy(Get(args, "parent_task_id"))
                                THEN linkToParent(pushed, args.parent_task_id,
                                                  newTask.id)
                                ELSE pushed
                /\ nextId' = nextId + 1
                /\ res' = Thrown          \* if (saveTasks) ...  (line 455)
                /\ UNCHANGED projects

\* the fields handleUpdateTask assigns (lines 476-482)
TaskFields ==
    <<"title", "description", "status", "priority", "due_date", "assignee",
      "tags">>

handleUpdateTask(args) ==
    LET taskIndex == findIndex(tasks, Get(args, "id"))
    IN  /\ req' = "update_task"
        /\ IF taskIndex = 0
           THEN /\ res' = NotFound("Task not found")
                /\ UNCHANGED <<projects, tasks, nextId>>
           ELSE LET task == assignDefined(tasks[taskIndex], args, TaskFields)
                IN  /\ tasks' = [tasks EXCEPT ![taskIndex] =
                                    [task EXCEPT !.updated_at = clock]]
                    /\ res' = Thrown      \* if (saveTasks) ...  (line 486)
                    /\ UNCHANGED <<projects, nextId>>

\* parent.subtasks = parent.subtasks.filter(id => id !== deletedId) on the
\* task of ts whose id is parentId, if any (lines 507-512)
unlinkFromParent(ts, parentId, deletedId) ==
    LET i == find(ts, parentId)
    IN  IF i = 0 THEN ts
        ELSE [ts EXCEPT ![i].subtasks = SelectSeq(@, LAMBDA id : id # deletedId)]

handleDeleteTask(args) ==
    LET taskIndex == findIndex(tasks, Get(args, "id"))
    IN  /\ req' = "delete_task"
        /\ IF taskIndex = 0
           THEN /\ res' = NotFound("Task not found")
                /\ UNCHANGED <<projects, tasks, nextId>>
           ELSE LET deletedTask == tasks[taskIndex]
                    spliced == splice(tasks, taskIndex)
                IN  /\ tasks' = IF Truthy(deletedTask.parent_task_id)
                                THEN unlinkFromParent(spliced,
                                         deletedTask.parent_task_id,
                                         deletedTask.id)
                                ELSE spliced
                    /\ res' = Thrown      \* if (saveTasks) ...  (line 514)
                    /\ UNCHANGED <<projects, nextId>>

\* Mutant of handleMoveTask: the task is reassigned before the new project is
\* looked up.
handleMoveTaskUnchecked(args) ==
    LET taskIndex == find(tasks, Get(args, "task_id"))
        projectIndex == find(projects, Get(args, "new_project_id"))
    IN  /\ req' = "move_task"
        /\ IF taskIndex = 0
           THEN /\ res' = NotFound("Task not found")
                /\ UNCHANGED <<projects, tasks, nextId>>
           ELSE /\ tasks' = [tasks EXCEPT ![taskIndex] =
                                [@ EXCEPT !.project_id = args.new_project_id,
                                          !.updated_at = clock]]
                /\ res' = IF projectIndex = 0
                          THEN NotFound("New project not found")
                          ELSE Thrown
                /\ UNCHANGED <<projects, nextId>>

handleMoveTask(args) ==
    LET taskIndex == find(tasks, Get(args, "task_id"))
        projectIndex == find(projects, Get(args, "new_project_id"))
    IN  /\ req' = "move_task"
        /\ IF taskIndex = 0
           THEN /\ res' = NotFound("Task not found")
                /\ UNCHANGED <<projects, tasks, nextId>>
           ELSE IF projectIndex = 0
           THEN /\ res' = NotFound("New project not found")
                /\ UNCHANGED <<projects, tasks, nextId>>
           ELSE /\ tasks' = [tasks EXCEPT ![taskIndex] =
                                [@ EXCEPT !.project_id = args.new_project_id,
                                          !.project_name =
                                              projects[projectIndex].name,
                                          !.updated_at = clock]]
                /\ res' = Thrown          \* if (saveTasks) ...  (line 541)
                /\ UNCHANGED <<projects, nextId>>

\* Math.round((num / den) * 100), for 0 <= num <= den, den > 0
\* Mutant of roundPercent: Math.floor in the place of Math.round.
floorPercent(num, den) == (100 * num) \div den

\* The pairs (num, den), den <= 205, for which 100 * num / den lies exactly
\* half way between two integers and the binary64 value of (num / den) * 100
\* is below that half: Math.round, which rounds a half up, rounds these down.
RoundsBelowHalf ==
    { <<23, 40>>, <<46, 80>>, <<69, 120>>, <<92, 160>>, <<29, 200>>,
      <<57, 200>>, <<113, 200>>, <<115, 200>> }

\* Math.round((num / den) * 100), for 0 <= num <= den, 0 < den <= 205
roundPercent(num, den) ==
    LET halfUp == (200 * num + den) \div (2 * den)
    IN  IF <<num, den>> \in RoundsBelowHalf THEN halfUp - 1 ELSE halfUp

\* arr.slice(0, n)
slice(arr, n) == SubSeq(arr, 1, IF Len(arr) < n THEN Len(arr) ELSE n)

\* the `summary` of the response of handleGetProjectSummary
projectSummary(project) ==
    LET projectTasks == SelectSeq(tasks, LAMBDA t : t.project_id = project.id)
        withStatus(s) == Len(SelectSeq(projectTasks, LAMBDA t : t.status = s))
        withPriority(p) ==
            Len(SelectSeq(projectTasks, LAMBDA t : t.priority = p))
    IN  [project |-> project,
         statistics |->
             [total_tasks |-> Len(projectTasks),
              todo |-> withStatus("todo"),
              in_progress |-> withStatus("in_progress"),
              done |-> withStatus("done"),
              completion_percentage |->
                  IF Len(projectTasks) > 0
                  THEN roundPercent(withStatus("done"), Len(projectTasks))
                  ELSE 0],
         tasks_by_priority |->
             [urgent |-> withPriority("urgent"),
              high |-> withPriority("high"),
              medium |-> withPriority("medium"),
              low |-> withPriority("low")],
         recent_tasks |-> slice(sort(projectTasks, "updated_at"), 5)]

handleGetProjectSummary(args) ==
    LET projectIndex == find(projects, Get(args, "id"))
    IN  /\ req' = "get_project_summary"
        /\ res' = IF projectIndex = 0
                  THEN NotFound("Project not found")
                  ELSE Json(200, [summary |-> projectSummary(projects[projectIndex])])
        /\ UNCHANGED <<projects, tasks, nextId>>

----------------------------------------------------------------------------
\* The MCP HTTP server (src/mcp-http-server.js)

\* `return text` in executeTool: the collections as the tool leaves them, the
\* number of uuidv4() calls made and the text returned
Return(ps, ts, n, text) ==
    [projects |-> ps, tasks |-> ts, uuids |-> n, thrown |-> FALSE, value |-> text]

\* `throw new Error(message)` in executeTool: every throw precedes the tool's
\* first assignment
Throw(message, about) ==
    [projects |-> projects, tasks |-> tasks, uuids |-> 0, thrown |-> TRUE,
     value |-> [message |-> message, about |-> about]]

HttpProjectFields == <<"name", "description", "status", "priority">>
HttpTaskFields == <<"title", "description", "status", "priority">>

\* arr.filter(keep) is SelectSeq(arr, keep)
executeTool(name, args) ==
    CASE name = "list_projects" ->
           LET filteredProjects ==
                   IF Truthy(Get(args, "status")) /\ args.status # "all"
                   THEN SelectSeq(projects, LAMBDA p : p.status = args.status)
                   ELSE projects
           IN  Return(projects, tasks, 0,
                      [text |-> "Projects", count |-> Len(filteredProjects),
                       items |-> filteredProjects])
      [] name = "create_project" ->
           LET newProject ==
                   [id |-> uuidv4(nextId),
                    name |-> Get(args, "name"),
                    description |-> OrElse(args, "description", ""),
                    status |-> OrElse(args, "status", "todo"),
                    priority |-> OrElse(args, "priority", "medium"),
                    created_at |-> clock,
                    updated_at |-> clock]
           IN  Return(Append(projects, newProject), tasks, 1,
                      [text |-> "Created project", name |-> newProject.name,
                       id |-> newProject.id, status |-> newProject.status,
                       priority |-> newProject.priority])
      [] name = "create_task" ->
           LET project == find(projects, Get(args, "project_id"))
               newTask ==
                   [id |-> uuidv4(nextId),
                    title |-> Get(args, "title"),
                    description |-> OrElse(args, "description", ""),
                    project_id |-> Get(args, "project_id"),
                    status |-> OrElse(args, "status", "todo"),
                    priority |-> OrElse(args, "priority", "medium"),
                    created_at |-> clock,
                    updated_at |-> clock]
           IN  IF project = 0
               THEN Throw("Project not found", Get(args, "project_id"))
               ELSE Return(projects, Append(tasks, newTask), 1,
                           [text |-> "Created task", title |-> newTask.title,
                            project |-> projects[project].name,
                            status |-> newTask.status,
                            priority |-> newTask.priority])
      [] name = "list_tasks" ->
           LET byProject ==
                   IF Truthy(Get(args, "project_id"))
                   THEN SelectSeq(tasks, LAMBDA t : t.project_id = args.project_id)
                   ELSE tasks
               filteredTasks ==
                   IF Truthy(Get(args, "status")) /\ args.status # "all"
                   THEN SelectSeq(byProject, LAMBDA t : t.status = args.status)
                   ELSE byProject
           IN  Return(projects, tasks, 0,
                      [text |-> "Tasks", count |-> Len(filteredTasks),
                       items |-> filteredTasks])
      [] name = "update_task" ->
           LET taskIndex == findIndex(tasks, Get(args, "task_id"))
               updated ==
                   [assignDefined(tasks[taskIndex], args, HttpTaskFields)
                       EXCEPT !.updated_at = clock]
           IN  IF taskIndex = 0
               THEN Throw("Task not found", Get(args, "task_id"))
               ELSE Return(projects, [tasks EXCEPT ![taskIndex] = updated], 0,
                           [text |-> "Updated task", title |-> updated.title,
                            status |-> updated.status,
                            priority |-> updated.priority])
      [] name = "delete_task" ->
           LET taskToDelete == find(tasks, Get(args, "task_id"))
           IN  IF taskToDelete = 0
               THEN Throw("Task not found", Get(args, "task_id"))
               ELSE Return(projects,
                           SelectSeq(tasks, LAMBDA t : t.id # args.task_id), 0,
                           [text |-> "Deleted task",
                            title |-> tasks[taskToDelete].title])
      [] name = "update_project" ->
           LET projectIndex == findIndex(projects, Get(args, "project_id"))
               updated ==
                   [assignDefined(projects[projectIndex], args, HttpProjectFields)
                       EXCEPT !.updated_at = clock]
           IN  IF projectIndex = 0
               THEN Throw("Project not found", Get(args, "project_id"))
               ELSE Return([projects EXCEPT ![projectIndex] = updated], tasks, 0,
                           [text |-> "Updated project", name |-> updated.name,
                            status |-> updated.status,
                            priority |-> updated.priority])
      [] name = "delete_project" ->
           LET projectToDelete == find(projects, Get(args, "project_id"))
               deletedTasksCount ==
                   Len(SelectSeq(tasks, LAMBDA t : t.project_id = args.project_id))
           IN  IF projectToDelete = 0
               THEN Throw("Project not found", Get(args, "project_id"))
               ELSE Return(SelectSeq(projects, LAMBDA p : p.id # args.project_id),
                           SelectSeq(tasks, LAMBDA t : t.project_id # args.project_id),
                           0,
                           [text |-> "Deleted project",
                            name |-> projects[projectToDelete].name,
                            count |-> deletedTasksCount])
      [] OTHER -> Throw("Unknown tool", name)

\* the catch block of POST /mcp: status 500 with error code -32603 and the
\* message of the error caught
catchResponse(error) ==
    Json(500, [error |-> [code |-> -32603, message |-> error.message,
                          about |-> error.about]])

\* the TypeError of `const { name, arguments: args } = message.params` when
\* the message has no params
DestructureError ==
    [message |-> "Cannot destructure property 'name' of 'message.params' as it is undefined.",
     about |-> Undefined]

\* POST /mcp with method tools/call and no params: the destructuring throws
\* before executeTool is called
toolsCallWithoutParams ==
    /\ req' = "tools/call"
    /\ res' = catchResponse(DestructureError)
    /\ UNCHANGED <<projects, tasks, nextId>>

\* POST /mcp with method tools/call: the result of executeTool in a JSON-RPC
\* result, or, from the catch block, status 500 with error code -32603 and
\* the message of the error thrown
toolsCall(name, args) ==
    LET out == executeTool(name, args)
    IN  /\ projects' = out.projects
        /\ tasks' = out.tasks
        /\ nextId' = nextId + out.uuids
        /\ req' = name
        /\ res' = IF out.thrown
                  THEN catchResponse(out.value)
                  ELSE Json(200, [result |-> out.value])

----------------------------------------------------------------------------
\* The requests of the model

NoArgs == [k \in {} |-> Undefined]

\* An id a request names is an id the server has handed out (uuidv4 results
\* cannot be guessed before they are generated), or a string that is no id
\* of the run.
\* the ids of the entities in a collection
IdsOf(arr) == { arr[i].id : i \in 1..Len(arr) }

NoSuchId == "no-such-id"
Generated == { uuidv4(n) : n \in 1..(nextId - 1) }
Ids == Generated \cup IdsOf(projects) \cup IdsOf(tasks) \cup {NoSuchId}

CreateProjectArgs == { [name |-> "Launch"] }

UpdateProjectArgs ==
    { [id |-> i] @@ b :
        i \in Ids, b \in { NoArgs, [name |-> "Beta", status |-> "done"] } }

DeleteProjectArgs ==
    { [id |-> i] : i \in Ids } \cup
    { [id |-> i, delete_tasks |-> TRUE] : i \in Ids }

ListProjectsArgs == { NoArgs, [status |-> "done"] }

CreateTaskArgs ==
    { [project_id |-> p, title |-> "Write copy"] @@ parent :
        p \in Ids,
        parent \in {NoArgs} \cup { [parent_task_id |-> t] : t \in Generated } }

\* PUT /api/tasks/:id : the arguments the route makes of the request body,
\* { ...req.body, id: req.params.id }
restUpdateTaskArgs(id, body) ==
    [k \in DOMAIN body \cup {"id"} |-> IF k = "id" THEN id ELSE body[k]]

\* a request body that carries fields no update assigns
ForeignFields ==
    [id |-> NoSuchId, created_at |-> MaxTime + 1, project_id |-> NoSuchId,
     parent_task_id |-> NoSuchId, subtasks |-> <<NoSuchId>>]

UpdateTaskArgs ==
    { [id |-> i] @@ b : i \in Ids, b \in { NoArgs, [status |-> "done"] } }
    \cup { restUpdateTaskArgs(i, ForeignFields) : i \in Ids }

DeleteTaskArgs == { [id |-> i] : i \in Ids }

MoveTaskArgs == { [task_id |-> t, new_project_id |-> p] : t \in Ids, p \in Ids }

ListTasksArgs == { NoArgs } \cup { [project_id |-> p] : p \in Generated }

SummaryArgs == { [id |-> i] : i \in Ids }

\* The tools/call requests of the HTTP server, by tool; a tool the server does
\* not have is called without arguments.
HttpTools ==
    {"list_projects", "create_project", "create_task", "list_tasks",
     "update_task", "delete_task", "update_project", "delete_project",
     "get_project_summary"}

HttpPartials == { NoArgs, [status |-> "done"], [name |-> "Beta", title |-> "Beta"] }

HttpArgs(name) ==
    CASE name = "list_projects" -> { NoArgs, [status |-> "done"] }
      [] name = "create_project" -> { [name |-> "Launch"] }
      [] name = "create_task" ->
           { [project_id |-> p, title |-> "Write copy"] : p \in Ids }
      [] name = "list_tasks" ->
           { NoArgs } \cup { [project_id |-> p] : p \in Generated }
      [] name = "update_task" ->
           { [task_id |-> i] @@ b : i \in Ids, b \in HttpPartials }
      [] name = "delete_task" -> { [task_id |-> i] : i \in Ids }
      [] name = "update_project" ->
           { [project_id |-> i] @@ b : i \in Ids, b \in HttpPartials }
      [] name = "delete_project" -> { [project_id |-> i] : i \in Ids }
      [] OTHER -> { NoArgs }

----------------------------------------------------------------------------
\* The server

Waiting == Json(200, [idle |-> TRUE])

\* process.env.REPLIT_DB_URL is not set
NoDatabase == [configured |-> FALSE]

Init ==
    /\ server \in {V2, Http}
    /\ projects = <<>>
    /\ tasks = <<>>
    /\ nextId = 1
    /\ clock = 0
    /\ req = "none"
    /\ res = Waiting
    /\ db = NoDatabase
    /\ loading = {}

\* Time passes between requests.
Tick ==
    /\ req = "none"
    /\ clock < MaxTime
    /\ clock' = clock + 1
    /\ UNCHANGED <<deployment, projects, tasks, nextId, req, res>>

\* One request, handled to completion; at most maxIds ids are generated.
Request(maxIds) ==
    /\ server = V2
    /\ req = "none"
    /\ \/ \E args \in ListProjectsArgs : handleListProjects(args)
       \/ \E args \in CreateProjectArgs :
              nextId <= maxIds /\ handleCreateProject(args)
       \/ \E args \in UpdateProjectArgs : handleUpdateProject(args)
       \/ \E args \in DeleteProjectArgs : handleDeleteProject(args)
       \/ \E args \in ListTasksArgs : handleListTasks(args)
       \/ \E args \in CreateTaskArgs :
              nextId <= maxIds /\ handleCreateTask(args)
       \/ \E args \in UpdateTaskArgs : handleUpdateTask(args)
       \/ \E args \in DeleteTaskArgs : handleDeleteTask(args)
       \/ \E args \in MoveTaskArgs : handleMoveTask(args)
       \/ \E args \in SummaryArgs : handleGetProjectSummary(args)
    /\ UNCHANGED <<deployment, clock>>

\* One tools/call request to the HTTP server, handled to completion.
HttpRequest(maxIds) ==
    /\ server = Http
    /\ req = "none"
    /\ \/ \E name \in HttpTools : \E args \in HttpArgs(name) :
             /\ name \in {"create_project", "create_task"} => nextId <= maxIds
             /\ toolsCall(name, args)
       \/ toolsCallWithoutParams
    /\ UNCHANGED <<deployment, clock>>

\* The caller has the response; the server waits for the next request.
Deliver ==
    /\ req # "none"
    /\ req' = "none"
    /\ res' = Waiting
    /\ UNCHANGED <<deployment, projects, tasks, nextId, clock>>

Next == Tick \/ Request(MaxIds) \/ HttpRequest(MaxIds) \/ Deliver

Spec == Init /\ [][Next]_vars

NextDeep == Tick \/ Request(MaxIdsDeep) \/ Deliver

SpecDeep == Init /\ [][NextDeep]_vars

----------------------------------------------------------------------------
\* The server under requests that vary the fields of what they create: names
\* and titles present, empty or missing; priorities of the enumeration and
\* outside it; due dates present or not.

FieldVariants ==
    { NoArgs, [priority |-> "low"], [priority |-> "urgent"],
      [priority |-> "bogus"], [due_date |-> "2024-01-01"],
      [due_date |-> "2024-02-01"], [status |-> "done"],
      [status |-> "blocked"] }

VariedProjectArgs ==
    { [name |-> "Launch"] @@ v : v \in FieldVariants }
    \cup { [description |-> "d"], [name |-> ""] }

VariedTaskArgs ==
    { [project_id |-> p] @@ b :
        p \in Generated,
        b \in { [title |-> "Write copy"] @@ v : v \in FieldVariants }
              \cup { [description |-> "d"], [title |-> ""] } }

FilteredListProjectsArgs == { NoArgs, [status |-> "all"], [status |-> "todo"] }

\* GET /api/tasks: the arguments the route makes of the query string
restListTasksArgs(query) ==
    [project_id |-> Get(query, "project_id"),
     status |-> OrElse(query, "status", "all"),
     priority |-> OrElse(query, "priority", "all")]

FilteredListTasksArgs ==
    { NoArgs, [status |-> "todo", priority |-> "all"], [priority |-> "medium"],
      [project_id |-> ""], [status |-> "", priority |-> "low"] }
    \cup { [project_id |-> p] : p \in Generated }
    \cup { [project_id |-> p, status |-> "done"] : p \in Generated }
    \cup { restListTasksArgs(query) :
              query \in { NoArgs, [status |-> "done"], [priority |-> ""] } }

VariedRequest ==
    /\ server = V2
    /\ req = "none"
    /\ \/ \E args \in FilteredListProjectsArgs : handleListProjects(args)
       \/ \E args \in VariedProjectArgs :
              nextId <= MaxIds /\ handleCreateProject(args)
       \/ \E args \in FilteredListTasksArgs : handleListTasks(args)
       \/ \E args \in VariedTaskArgs :
              nextId <= MaxIds /\ handleCreateTask(args)
    /\ UNCHANGED <<deployment, clock>>

NextVaried == Tick \/ VariedRequest \/ Deliver

SpecVaried == Init /\ [][NextVaried]_vars

----------------------------------------------------------------------------
\* The projects+tasks server with a store that requests have filled: one
\* project and up to MaxTasks tasks in it, some created with status done,
\* and get_project_summary applied to it.

\* what create_project {name: "Launch"} stored as the first entity
StoredProject ==
    [id |-> uuidv4(1), name |-> "Launch", description |-> "",
     status |-> "todo", priority |-> "medium", due_date |-> Null,
     tags |-> <<>>, created_at |-> 0, updated_at |-> 0]

\* what create_task {project_id, title: "Write copy", status} stored as the
\* n-th entity
StoredTask(n, status) ==
    [id |-> uuidv4(n), title |-> "Write copy", description |-> "",
     project_id |-> StoredProject.id, project_name |-> StoredProject.name,
     status |-> status, priority |-> "medium", due_date |-> Null,
     assignee |-> Null, tags |-> <<>>, parent_task_id |-> Null,
     created_at |-> 0, updated_at |-> 0, subtasks |-> <<>>]

InitLoaded ==
    /\ server = V2
    /\ projects = <<StoredProject>>
    /\ \E total \in 0..MaxTasks : \E done \in 0..total :
          /\ tasks = [i \in 1..total |->
                         StoredTask(i + 1, IF i <= done THEN "done" ELSE "todo")]
          /\ nextId = total + 2
    /\ clock = 0
    /\ req = "none"
    /\ res = Waiting
    /\ db = NoDatabase
    /\ loading = {}

LoadedSummaryArgs == { [id |-> StoredProject.id], [id |-> NoSuchId] }

LoadedRequest ==
    /\ server = V2
    /\ req = "none"
    /\ \E args \in LoadedSummaryArgs : handleGetProjectSummary(args)
    /\ UNCHANGED <<deployment, clock>>

NextLoaded == LoadedRequest \/ Deliver

SpecLoaded == InitLoaded /\ [][NextLoaded]_vars

\* The same with up to MaxRecent tasks, each last updated (by update_task) at
\* a time of its own.
InitRecent ==
    /\ server = V2
    /\ projects = <<StoredProject>>
    /\ \E total \in 0..MaxRecent :
          /\ tasks \in [1..total ->
                         { [StoredTask(n, "todo") EXCEPT !.updated_at = at] :
                             n \in 2..(total + 1), at \in 0..MaxStamp }]
          /\ \A i \in 1..total : tasks[i].id = uuidv4(i + 1)
          /\ nextId = total + 2
    /\ clock = MaxStamp
    /\ req = "none"
    /\ res = Waiting
    /\ db = NoDatabase
    /\ loading = {}

SpecRecent == InitRecent /\ [][NextLoaded]_vars

----------------------------------------------------------------------------
\* The projects+tasks server started with REPLIT_DB_URL set (lines 17-44):
\* the two db.get(...) of the startup load are under way, and their
\* callbacks run between the requests the server is already handling.  The
\* database holds nothing, or what an earlier run of the server left in it.

\* a project and a task of an earlier run
PersistedProject ==
    [id |-> "persisted-project", name |-> "Launch", description |-> "",
     status |-> "todo", priority |-> "medium", due_date |-> Null,
     tags |-> <<>>, created_at |-> 0, updated_at |-> 0]

PersistedTask ==
    [id |-> "persisted-task", title |-> "Write copy", description |-> "",
     project_id |-> PersistedProject.id,
     project_name |-> PersistedProject.name,
     status |-> "todo", priority |-> "medium", due_date |-> Null,
     assignee |-> Null, tags |-> <<>>, parent_task_id |-> Null,
     created_at |-> 0, updated_at |-> 0, subtasks |-> <<>>]

\* the database, with each blob as the array JSON.parse reads from it
Databases ==
    { [configured |-> TRUE],
      [configured |-> TRUE, projects |-> <<PersistedProject>>,
       tasks |-> <<PersistedTask>>] }

InitStartup ==
    /\ server = V2
    /\ projects = <<>>
    /\ tasks = <<>>
    /\ nextId = 1
    /\ clock = 0
    /\ req = "none"
    /\ res = Waiting
    /\ db \in Databases
    /\ loading = {"projects", "tasks"}

\* db.get(key).then(value => { if (value) <collection> = JSON.parse(value) })
loadCallback(key) ==
    /\ server = V2
    /\ req = "none"
    /\ key \in loading
    /\ loading' = loading \ {key}
    /\ projects' = IF key = "projects" /\ key \in DOMAIN db
                   THEN db.projects ELSE projects
    /\ tasks' = IF key = "tasks" /\ key \in DOMAIN db
                THEN db.tasks ELSE tasks
    /\ UNCHANGED <<server, db, nextId, clock, req, res>>

Load == \E key \in {"projects", "tasks"} : loadCallback(key)

NextStartup == Load \/ Request(MaxIds) \/ Deliver

SpecStartup == InitStartup /\ [][NextStartup]_vars

----------------------------------------------------------------------------
\* The tasks-only server (src/mcp-task-server.js): one array, `tasks`, whose
\* elements carry parent_id and subtasks, and the five handlers of
\* POST /tools/:toolName.  Its handlers call the saveTasks of line 329, which
\* is in scope.

\* const saveTasks = () => { if (process.env.REPLIT_DB_URL) { ...
\*   db.set("tasks", JSON.stringify(tasks)); } };       (lines 329-335)
saveTasks(ts) ==
    db' = IF db.configured
          THEN [k \in DOMAIN db \cup {"tasks"} |->
                   IF k = "tasks" THEN ts ELSE db[k]]
          ELSE db

handleListTasksV1(args) ==
    LET byStatus ==
            IF Truthy(Get(args, "status")) /\ args.status # "all"
            THEN SelectSeq(tasks, LAMBDA t : t.status = args.status)
            ELSE tasks
        filtered ==
            IF Truthy(Get(args, "priority")) /\ args.priority # "all"
            THEN SelectSeq(byStatus, LAMBDA t : t.priority = args.priority)
            ELSE byStatus
    IN  /\ req' = "list_tasks"
        /\ res' = Json(200, [tasks |-> sort(filtered, "priority")])
        /\ UNCHANGED <<projects, tasks, nextId, db>>

\* parent.subtasks.push(newTask.id) on the task of ts whose id is parentId,
\* if any (lines 198-204)
linkToParentV1(ts, parentId, id) ==
    LET i == find(ts, parentId)
    IN  IF i = 0 THEN ts
        ELSE [ts EXCEPT ![i].subtasks = Append(@, id)]

handleCreateTaskV1(args) ==
    LET newTask ==
            [id |-> uuidv4(nextId),
             title |-> Get(args, "title"),
             description |-> OrElse(args, "description", ""),
             status |-> OrElse(args, "status", "todo"),
             priority |-> OrElse(args, "priority", "medium"),
             due_date |-> OrElse(args, "due_date", Null),
             tags |-> TagsOrEmpty(args),
             parent_id |-> OrElse(args, "parent_id", Null),
             created_at |-> clock,
             updated_at |-> clock,
             subtasks |-> <<>>]
        pushed == Append(tasks, newTask)
    IN  /\ req' = "create_task"
        /\ tasks' = IF Truthy(Get(args, "parent_id"))
                     THEN linkToParentV1(pushed, args.parent_id, newTask.id)
                     ELSE pushed
        /\ nextId' = nextId + 1
        /\ saveTasks(tasks')
        /\ res' = Json(200, [task |-> newTask])
        /\ UNCHANGED projects

\* the fields handleUpdateTask assigns (lines 227-232)
TaskFieldsV1 ==
    <<"title", "description", "status", "priority", "due_date", "tags">>

handleUpdateTaskV1(args) ==
    LET taskIndex == findIndex(tasks, Get(args, "id"))
    IN  /\ req' = "update_task"
        /\ IF taskIndex = 0
           THEN /\ res' = NotFound("Task not found")
                /\ UNCHANGED <<projects, tasks, nextId, db>>
           ELSE LET task ==
                        [assignDefined(tasks[taskIndex], args, TaskFieldsV1)
                            EXCEPT !.updated_at = clock]
                IN  /\ tasks' = [tasks EXCEPT ![taskIndex] = task]
                    /\ saveTasks(tasks')
                    /\ res' = Json(200, [task |-> task])
                    /\ UNCHANGED <<projects, nextId>>

\* Mutant of unlinkFromParentV1: the subtasks of the parent are left as
\* they are.
unlinkNothing(ts, parentId, deletedId) == ts

\* parent.subtasks = parent.subtasks.filter(id => id !== deletedTask.id) on
\* the task of ts whose id is parentId, if any (lines 257-262)
unlinkFromParentV1(ts, parentId, deletedId) ==
    LET i == find(ts, parentId)
    IN  IF i = 0 THEN ts
        ELSE [ts EXCEPT ![i].subtasks = SelectSeq(@, LAMBDA id : id # deletedId)]

handleDeleteTaskV1(args) ==
    LET taskIndex == findIndex(tasks, Get(args, "id"))
    IN  /\ req' = "delete_task"
        /\ IF taskIndex = 0
           THEN /\ res' = NotFound("Task not found")
                /\ UNCHANGED <<projects, tasks, nextId, db>>
           ELSE LET deletedTask == tasks[taskIndex]
                    spliced == splice(tasks, taskIndex)
                IN  /\ tasks' = IF Truthy(deletedTask.parent_id)
                                THEN unlinkFromParentV1(spliced,
                                         deletedTask.parent_id, deletedTask.id)
                                ELSE spliced
                    /\ saveTasks(tasks')
                    /\ res' = Json(200, [deleted |-> deletedTask])
                    /\ UNCHANGED <<projects, nextId>>

\* task.subtasks.map(id => tasks.find(t => t.id === id)).filter(Boolean)
subtasksOf(task) ==
    LET found == SelectSeq([k \in 1..Len(task.subtasks) |->
                               find(tasks, task.subtasks[k])],
                           LAMBDA i : i # 0)
    IN  [k \in 1..Len(found) |-> tasks[found[k]]]

handleGetTaskV1(args) ==
    LET task == find(tasks, Get(args, "id"))
    IN  /\ req' = "get_task"
        /\ res' = IF task = 0
                  THEN NotFound("Task not found")
                  ELSE Json(200, [task |-> [tasks[task] EXCEPT
                                               !.subtasks = subtasksOf(tasks[task])]])
        /\ UNCHANGED <<projects, tasks, nextId, db>>

\* the requests: a parent_id is an id the server has handed out or no id of
\* the run; an update may carry fields that no update assigns
CreateTaskArgsV1 ==
    { [title |-> "Write copy"] @@ parent :
        parent \in {NoArgs}
                   \cup { [parent_id |-> t] : t \in Generated \cup {NoSuchId} } }

UpdateTaskArgsV1 ==
    { [id |-> i] @@ b :
        i \in Ids,
        b \in { NoArgs, [status |-> "done"],
                [parent_id |-> NoSuchId, subtasks |-> <<NoSuchId>>] } }

\* the store is empty; REPLIT_DB_URL is set, with nothing stored, or not set
InitV1 ==
    /\ server = V1
    /\ projects = <<>>
    /\ tasks = <<>>
    /\ nextId = 1
    /\ clock = 0
    /\ req = "none"
    /\ res = Waiting
    /\ db \in {NoDatabase, [configured |-> TRUE]}
    /\ loading = {}

\* POST /tools/:toolName, handled to completion
RequestV1 ==
    /\ server = V1
    /\ req = "none"
    /\ \/ \E args \in { NoArgs, [status |-> "done"] } : handleListTasksV1(args)
       \/ \E args \in CreateTaskArgsV1 :
              nextId <= MaxIdsV1 /\ handleCreateTaskV1(args)
       \/ \E args \in UpdateTaskArgsV1 : handleUpdateTaskV1(args)
       \/ \E args \in DeleteTaskArgs : handleDeleteTaskV1(args)
       \/ \E args \in DeleteTaskArgs : handleGetTaskV1(args)
    /\ UNCHANGED <<server, loading, clock>>

NextV1 == RequestV1 \/ Deliver

SpecV1 == InitV1 /\ [][NextV1]_vars

----------------------------------------------------------------------------
\* Vocabulary of the claims

\* the response is a success payload and nothing went wrong after it
Succeeded(r) == r.status = 200 /\ ~r.fault

\* the step handles a request
HandlesRequest == req = "none" /\ req' # "none"

CollectionsUnchanged == projects' = projects /\ tasks' = tasks

ProjectFieldNames ==
    {"id", "name", "description", "status", "priority", "due_date", "tags",
     "created_at", "updated_at"}

HttpProjectFieldNames ==
    {"id", "name", "description", "status", "priority", "created_at",
     "updated_at"}

HttpTaskFieldNames ==
    {"id", "title", "description", "project_id", "status", "priority",
     "created_at", "updated_at"}

TaskFieldNames ==
    {"id", "title", "description", "project_id", "project_name", "status",
     "priority", "due_date", "assignee", "tags", "parent_task_id",
     "created_at", "updated_at", "subtasks"}

\* an update of the entity with that id took arr to arr2 and changed, in
\* that entity, only fields the request carries and updated_at, and no other
\* entity
OnlyRequestedFieldsChanged(arr, arr2, id, args, fieldNames, assigned) ==
    /\ Len(arr2) = Len(arr)
    /\ \A i \in 1..Len(arr) :
          IF arr[i].id = id
          THEN /\ \A f \in fieldNames \ {"updated_at"} :
                      f \notin (DOMAIN args \ {"id"}) => arr2[i][f] = arr[i][f]
               /\ \A f \in DOMAIN args \cap assigned : arr2[i][f] = args[f]
          ELSE arr2[i] = arr[i]

----------------------------------------------------------------------------
\* the step is the HTTP server's handling of a tools/call of the tool
CallsTool(name, args) == server = Http /\ req = "none" /\ toolsCall(name, args)

\* the HTTP server's answer is the failure its catch block sends
Failed(r) == r.status = 500 /\ "error" \in DOMAIN r.body

\* C1: in the projects+tasks server, every mutating request either applies
\* its mutation and answers with a success payload, or answers with a failure
\* and leaves both collections unchanged: no request changes a collection and
\* leaves its caller with a failure or with a fault after the response.
C1_MutationIffSuccess ==
    [][(server = V2 /\ HandlesRequest)
       => (Succeeded(res') \/ CollectionsUnchanged)]_vars

\* C2: create_task with a project_id that is the id of no project is answered
\* with the not-found failure (404 "Project not found" by the projects+tasks
\* server, the error "Project not found" by the HTTP server) and leaves the
\* task collection (subtasks sets included) and the projects unchanged.
C2_CreateTaskUnknownProject ==
    [][/\ \A args \in CreateTaskArgs :
             (/\ server = V2
              /\ handleCreateTask(args)
              /\ args.project_id \notin IdsOf(projects))
             => (res'.status = 404 /\ CollectionsUnchanged)
       /\ \A args \in HttpArgs("create_task") :
             (/\ CallsTool("create_task", args)
              /\ args.project_id \notin IdsOf(projects))
             => /\ Failed(res')
                /\ res'.body.error.message = "Project not found"
                /\ CollectionsUnchanged]_vars

C2_Witness ==
    /\ server = V2
    /\ req = "create_task"
    /\ res = NotFound("Project not found")
    /\ Len(tasks) > 0

\* C3: a delete_project with cascade (in the HTTP server, every
\* delete_project) that is not declined removes the project and every task
\* whose project_id is its id, and list_tasks for that id is then empty.
C3_CascadeDelete ==
    [][/\ \A args \in DeleteProjectArgs :
             (/\ server = V2
              /\ handleDeleteProject(args)
              /\ DeleteTasksFlag(args)
              /\ args.id \in IdsOf(projects))
             => /\ args.id \notin IdsOf(projects')
                /\ \A i \in 1..Len(tasks') : tasks'[i].project_id # args.id
                /\ listTasks([project_id |-> args.id])' = <<>>
       /\ \A args \in HttpArgs("delete_project") :
             (/\ CallsTool("delete_project", args)
              /\ args.project_id \in IdsOf(projects))
             => /\ args.project_id \notin IdsOf(projects')
                /\ \A i \in 1..Len(tasks') :
                      tasks'[i].project_id # args.project_id
                /\ executeTool("list_tasks", args)'.value.items = <<>>]_vars

\* a delete_project has removed a project together with its one task, and
\* another project remains
C3_Witness ==
    /\ server = Http
    /\ req = "delete_project"
    /\ res.status = 200
    /\ res.body.result.count = 1
    /\ Len(projects) = 1
    /\ tasks = <<>>

\* C4: for every task P of the collection, P.subtasks is exactly the set of
\* ids of the tasks of the collection whose parent_task_id is P.id.
C4_SubtasksMatchChildren ==
    server = V2 =>
    \A i \in 1..Len(tasks) :
        { tasks[i].subtasks[k] : k \in 1..Len(tasks[i].subtasks) }
        = { tasks[j].id : j \in { j \in 1..Len(tasks) :
                                    tasks[j].parent_task_id = tasks[i].id } }

\* C5: update_project and update_task on an existing id change, in the
\* entity updated, only the fields the request carries and updated_at, and
\* change no other project or task.
C5_UpdateChangesOnlyRequested ==
    [][/\ \A args \in UpdateProjectArgs :
             (/\ server = V2
              /\ handleUpdateProject(args)
              /\ args.id \in IdsOf(projects))
             => /\ OnlyRequestedFieldsChanged(projects, projects', args.id,
                        args, ProjectFieldNames,
                        {"name", "description", "status", "priority",
                         "due_date", "tags"})
                /\ tasks' = tasks
       /\ \A args \in UpdateTaskArgs :
             (/\ server = V2
              /\ handleUpdateTask(args)
              /\ args.id \in IdsOf(tasks))
             => /\ OnlyRequestedFieldsChanged(tasks, tasks', args.id, args,
                        TaskFieldNames,
                        {"title", "description", "status", "priority",
                         "due_date", "assignee", "tags"})
                /\ projects' = projects
       /\ \A args \in HttpArgs("update_project") :
             (/\ CallsTool("update_project", args)
              /\ args.project_id \in IdsOf(projects))
             => /\ OnlyRequestedFieldsChanged(projects, projects',
                        args.project_id, args, HttpProjectFieldNames,
                        {"name", "description", "status", "priority"})
                /\ tasks' = tasks
       /\ \A args \in HttpArgs("update_task") :
             (/\ CallsTool("update_task", args)
              /\ args.task_id \in IdsOf(tasks))
             => /\ OnlyRequestedFieldsChanged(tasks, tasks', args.task_id,
                        args, HttpTaskFieldNames,
                        {"title", "description", "status", "priority"})
                /\ projects' = projects]_vars

\* an update with an empty partial has acted on a project that had been
\* changed from its defaults: only its updated_at moved
C5_Witness ==
    /\ server = V2
    /\ req = "update_project"
    /\ res = Thrown
    /\ \E i \in 1..Len(projects) :
          /\ projects[i].status = "done"
          /\ projects[i].updated_at > projects[i].created_at
    /\ \E i \in 1..Len(tasks) :
          /\ tasks[i].status = "done"
          /\ tasks[i].updated_at = tasks[i].created_at

\* C6: move_task with a task_id or a new_project_id that does not resolve
\* answers 404 and leaves every task and project as it was.
C6_MoveTaskUnresolved ==
    [][\A args \in MoveTaskArgs :
          (/\ server = V2
           /\ handleMoveTask(args)
           /\ \/ args.task_id \notin IdsOf(tasks)
              \/ args.new_project_id \notin IdsOf(projects))
          => (res'.status = 404 /\ CollectionsUnchanged)]_vars

C6_Witness ==
    /\ server = V2
    /\ req = "move_task"
    /\ res = NotFound("New project not found")
    /\ Len(tasks) > 0

\* C7: update_project, delete_project, update_task, delete_task and
\* get_project_summary with an id that is in no collection are answered with
\* the not-found failure (404 by the projects+tasks server, the error
\* "... not found" by the HTTP server) and leave both collections unchanged.
C7_UnknownIdDeclined ==
    [][/\ \A args \in UpdateProjectArgs :
             (/\ server = V2
              /\ handleUpdateProject(args)
              /\ args.id \notin IdsOf(projects))
             => (res'.status = 404 /\ CollectionsUnchanged)
       /\ \A args \in DeleteProjectArgs :
             (/\ server = V2
              /\ handleDeleteProject(args)
              /\ args.id \notin IdsOf(projects))
             => (res'.status = 404 /\ CollectionsUnchanged)
       /\ \A args \in UpdateTaskArgs :
             (/\ server = V2
              /\ handleUpdateTask(args)
              /\ args.id \notin IdsOf(tasks))
             => (res'.status = 404 /\ CollectionsUnchanged)
       /\ \A args \in DeleteTaskArgs :
             (/\ server = V2
              /\ handleDeleteTask(args)
              /\ args.id \notin IdsOf(tasks))
             => (res'.status = 404 /\ CollectionsUnchanged)
       /\ \A args \in SummaryArgs :
             (/\ server = V2
              /\ handleGetProjectSummary(args)
              /\ args.id \notin IdsOf(projects))
             => (res'.status = 404 /\ CollectionsUnchanged)
       /\ \A name \in {"update_project", "delete_project"} :
             \A args \in HttpArgs(name) :
                (/\ CallsTool(name, args)
                 /\ args.project_id \notin IdsOf(projects))
                => /\ Failed(res')
                   /\ res'.body.error.message = "Project not found"
                   /\ CollectionsUnchanged
       /\ \A name \in {"update_task", "delete_task"} :
             \A args \in HttpArgs(name) :
                (/\ CallsTool(name, args)
                 /\ args.task_id \notin IdsOf(tasks))
                => /\ Failed(res')
                   /\ res'.body.error.message = "Task not found"
                   /\ CollectionsUnchanged]_vars

C7_Witness ==
    /\ server = V2
    /\ req = "delete_task"
    /\ res = NotFound("Task not found")
    /\ Len(tasks) > 0
    /\ Len(projects) > 0

\* C8: create_project without a name or with an empty one, and create_task
\* without a title or with an empty one in an existing project, are declined
\* with a validation error and add nothing to either collection.
C8_CreateValidatesNameAndTitle ==
    [][/\ \A args \in VariedProjectArgs :
             (/\ server = V2
              /\ handleCreateProject(args)
              /\ ~Truthy(Get(args, "name")))
             => (res'.status = 400 /\ CollectionsUnchanged)
       /\ \A args \in VariedTaskArgs :
             (/\ server = V2
              /\ handleCreateTask(args)
              /\ args.project_id \in IdsOf(projects)
              /\ ~Truthy(Get(args, "title")))
             => (res'.status = 400 /\ CollectionsUnchanged)]_vars

\* the order of the specification: urgent < high < medium < low
PriorityRank == [urgent |-> 1, high |-> 2, medium |-> 3, low |-> 4]

RankedBefore(p, q) ==
    /\ p \in DOMAIN PriorityRank
    /\ q \in DOMAIN PriorityRank
    /\ PriorityRank[p] < PriorityRank[q]

\* the list a list_projects or list_tasks response carries
Listed ==
    IF server = V2 /\ req = "list_projects" THEN res.body.projects
    ELSE IF server = V2 /\ req = "list_tasks" THEN res.body.tasks
    ELSE <<>>

\* C9: in the list list_projects or list_tasks returns, no entry appears
\* after an entry of lower-ranked priority (urgent < high < medium < low).
C9_ListedByPriority ==
    \A i, j \in 1..Len(Listed) :
        i < j => ~RankedBefore(Listed[j].priority, Listed[i].priority)

\* C10: in the list list_projects or list_tasks returns, two entries of equal
\* priority that both have a due date appear in ascending due-date order.
C10_ListedByDueDate ==
    \A i, j \in 1..Len(Listed) :
        (/\ i < j
         /\ Listed[i].priority = Listed[j].priority
         /\ Truthy(Listed[i].due_date)
         /\ Truthy(Listed[j].due_date))
        => DateValue(Listed[i].due_date).v <= DateValue(Listed[j].due_date).v

\* C11: in the list list_projects or list_tasks returns, among entries of
\* equal priority no entry without a due date appears before an entry that
\* has one.
C11_UndatedAfterDated ==
    \A i, j \in 1..Len(Listed) :
        (/\ i < j
         /\ Listed[i].priority = Listed[j].priority
         /\ Truthy(Listed[j].due_date))
        => Truthy(Listed[i].due_date)

\* the response is the summary of an existing project
Summarized ==
    server = V2 /\ req = "get_project_summary" /\ res.status = 200

\* the tasks of the project summarized, and those of them that are done
SummarizedTasks ==
    SelectSeq(tasks, LAMBDA t : t.project_id = res.body.summary.project.id)

SummarizedDone == SelectSeq(SummarizedTasks, LAMBDA t : t.status = "done")

\* p is an integer nearest to 100 * num / den
NearestPercent(p, num, den) ==
    LET diff == 100 * num - p * den
    IN  2 * (IF diff < 0 THEN 0 - diff ELSE diff) <= den

\* C12 as stated: completion_percentage is 0 for a project without tasks,
\* otherwise the integer nearest to 100 * done / total; it is in 0..100, and
\* it is 100 exactly when total > 0 and every task of the project is done.
C12_CompletionAsStated ==
    Summarized =>
        LET total == Len(SummarizedTasks)
            done == Len(SummarizedDone)
            pct == res.body.summary.statistics.completion_percentage
        IN  /\ total = 0 => pct = 0
            /\ total > 0 => NearestPercent(pct, done, total)
            /\ pct \in 0..100
            /\ pct = 100 <=> (total > 0 /\ done = total)

\* C12, amended: completion_percentage is 0 for a project without tasks,
\* otherwise an integer nearest to 100 * done / total; it is in 0..100, it is
\* 100 when total > 0 and every task of the project is done, and it is 100
\* only when at least 99.5% of the tasks of the project are done.
C12_CompletionPercentage ==
    Summarized =>
        LET total == Len(SummarizedTasks)
            done == Len(SummarizedDone)
            pct == res.body.summary.statistics.completion_percentage
        IN  /\ total = 0 => pct = 0
            /\ total > 0 => NearestPercent(pct, done, total)
            /\ pct \in 0..100
            /\ (total > 0 /\ done = total) => pct = 100
            /\ pct = 100 => (total > 0 /\ 200 * done >= 199 * total)

\* a project with one task not done is reported as 100% complete
C12_Witness ==
    /\ Summarized
    /\ res.body.summary.statistics.completion_percentage = 100
    /\ Len(SummarizedDone) = Len(SummarizedTasks) - 1

\* the task of the collection with that id
TaskWithId(ts, id) == ts[CHOOSE i \in 1..Len(ts) : ts[i].id = id]

\* a delete_task of a task whose parent P is in the collection leaves P with
\* its subtasks less the id of the task deleted
ParentUnlinked(args) ==
    LET deleted == TaskWithId(tasks, args.id)
        P == deleted.parent_task_id
    IN  (Truthy(P) /\ P \in IdsOf(tasks) \ {args.id})
        => /\ P \in IdsOf(tasks')
           /\ TaskWithId(tasks', P).subtasks
              = SelectSeq(TaskWithId(tasks, P).subtasks,
                          LAMBDA id : id # args.id)

\* a delete_task of a task whose parent is no longer in the collection
\* removes the task and answers with a success payload, without a fault
OrphanDeleted(args) ==
    LET deleted == TaskWithId(tasks, args.id)
        P == deleted.parent_task_id
    IN  (Truthy(P) /\ P \notin IdsOf(tasks))
        => /\ args.id \notin IdsOf(tasks')
           /\ Succeeded(res')

\* C13: delete_task of a task whose parent P is in the collection removes
\* the task's id from P's subtasks and leaves them otherwise unchanged; when
\* P is no longer in the collection the delete succeeds without error.
C13_DeleteTaskUnlinks ==
    [][\A args \in DeleteTaskArgs :
          (/\ server = V2
           /\ handleDeleteTask(args)
           /\ args.id \in IdsOf(tasks))
          => (ParentUnlinked(args) /\ OrphanDeleted(args))]_vars

\* the first half of C13 alone
C13_ParentUnlinked ==
    [][\A args \in DeleteTaskArgs :
          (/\ server = V2
           /\ handleDeleteTask(args)
           /\ args.id \in IdsOf(tasks))
          => ParentUnlinked(args)]_vars

\* no two entities of the collection share an id
DistinctIds(arr) == \A i, j \in 1..Len(arr) : arr[i].id = arr[j].id => i = j

\* C14: an id that a request adds to a collection is none of the ids
\* assigned earlier (those of deleted entities included), and no two projects
\* and no two tasks share an id.
C14_IdsUnique ==
    [][HandlesRequest =>
          /\ \A id \in (IdsOf(projects') \cup IdsOf(tasks'))
                       \ (IdsOf(projects) \cup IdsOf(tasks)) :
                id \notin Generated
          /\ DistinctIds(projects')
          /\ DistinctIds(tasks')]_vars

\* a project has been created after the two entities created before it were
\* deleted
C14_Witness ==
    /\ server = V2
    /\ req = "create_project"
    /\ tasks = <<>>
    /\ Len(projects) = 1
    /\ projects[1].id = uuidv4(3)

\* the blob stored under the key is the collection
Saved(database, key, arr) == key \in DOMAIN database /\ database[key] = arr

\* C15: with the database configured, a request that changes a collection
\* leaves, under that collection's key, the collection as the request left
\* it.
C15_SavedAfterMutation ==
    [][(server = V2 /\ db.configured /\ HandlesRequest)
       => /\ projects' # projects => Saved(db', "projects", projects')
          /\ tasks' # tasks => Saved(db', "tasks", tasks')]_vars

\* C16: a project or task that is in its collection when a callback of the
\* startup load runs is still in it when the callback has run.
C16_LoadKeepsCreated ==
    [][\A key \in {"projects", "tasks"} :
          loadCallback(key)
          => /\ \A i \in 1..Len(projects) :
                   \E j \in 1..Len(projects') : projects'[j] = projects[i]
             /\ \A i \in 1..Len(tasks) :
                   \E j \in 1..Len(tasks') : tasks'[j] = tasks[i]]_vars

\* the request selects the task
Selects(args, t) ==
    /\ Truthy(Get(args, "project_id")) => t.project_id = args.project_id
    /\ (Truthy(Get(args, "status")) /\ args.status # "all")
       => t.status = args.status
    /\ (Truthy(Get(args, "priority")) /\ args.priority # "all")
       => t.priority = args.priority

\* C17: delete_project without delete_tasks removes the project and nothing
\* else, the tasks that referenced it included; a list_tasks then answers
\* with every task it selects, those of a project that is gone under the
\* name "Unknown Project"; get_project_summary of an id that is gone answers
\* 404.
C17_DeleteWithoutCascade ==
    [][/\ \A args \in DeleteProjectArgs :
             (/\ server = V2
              /\ handleDeleteProject(args)
              /\ ~DeleteTasksFlag(args)
              /\ args.id \in IdsOf(projects))
             => /\ projects' = SelectSeq(projects, LAMBDA p : p.id # args.id)
                /\ Len(projects') = Len(projects) - 1
                /\ tasks' = tasks
       /\ \A args \in ListTasksArgs :
             (server = V2 /\ handleListTasks(args))
             => /\ Succeeded(res')
                /\ \A i \in 1..Len(tasks) :
                      (Selects(args, tasks[i])
                       /\ tasks[i].project_id \notin IdsOf(projects))
                      => \E j \in 1..Len(res'.body.tasks) :
                            /\ res'.body.tasks[j].id = tasks[i].id
                            /\ res'.body.tasks[j].project_id = tasks[i].project_id
                            /\ res'.body.tasks[j].project_name = "Unknown Project"
       /\ \A args \in SummaryArgs :
             (/\ server = V2
              /\ handleGetProjectSummary(args)
              /\ args.id \notin IdsOf(projects))
             => res'.status = 404]_vars

\* list_tasks has listed the task of a project that was deleted without its
\* tasks
C17_Witness ==
    /\ server = V2
    /\ req = "list_tasks"
    /\ Len(res.body.tasks) = 1
    /\ res.body.tasks[1].project_name = "Unknown Project"
    /\ res.body.tasks[1].project_id \in Generated \ IdsOf(projects)
    /\ tasks # <<>>

\* the request carries a value for the criterion
Supplied(args, f) == f \in DOMAIN args /\ args[f] \notin {Undefined, Null}

\* the task meets every criterion the request carries, "all" apart
Matches(args, t) ==
    /\ Supplied(args, "project_id") => t.project_id = args.project_id
    /\ (Supplied(args, "status") /\ args.status # "all")
       => t.status = args.status
    /\ (Supplied(args, "priority") /\ args.priority # "all")
       => t.priority = args.priority

\* the tasks listed are the tasks of the collection that Sel selects, each
\* once, as stored but for the project name
ListsExactly(listed, args, Sel(_, _)) ==
    LET want == SelectSeq(tasks, LAMBDA t : Sel(args, t))
    IN  /\ Len(listed) = Len(want)
        /\ \A i \in 1..Len(want) :
              \E j \in 1..Len(listed) :
                 [listed[j] EXCEPT !.project_name = want[i].project_name]
                 = want[i]
        /\ \A j \in 1..Len(listed) :
              \E i \in 1..Len(want) : listed[j].id = want[i].id

\* C18 as stated: list_tasks returns exactly the tasks that meet every
\* criterion the request carries, where a criterion that is absent, or "all"
\* for status and priority, selects every task.
C18_ListTasksAsStated ==
    [][\A args \in FilteredListTasksArgs :
          (server = V2 /\ handleListTasks(args))
          => ListsExactly(res'.body.tasks, args, Matches)]_vars

\* C18, amended: list_tasks returns exactly the tasks that meet every
\* criterion the request carries, where a criterion that is absent or the
\* empty string, or "all" for status and priority, selects every task.
C18_ListTasksFilters ==
    [][\A args \in FilteredListTasksArgs :
          (server = V2 /\ handleListTasks(args))
          => ListsExactly(res'.body.tasks, args, Selects)]_vars

\* list_tasks has listed some of the tasks and left others out
C18_Witness ==
    /\ server = V2
    /\ req = "list_tasks"
    /\ res.body.tasks # <<>>
    /\ Len(res.body.tasks) < Len(tasks)

\* the number of tasks of the collection in the project with that status
CountOf(projectId, status) ==
    Cardinality({ i \in 1..Len(tasks) :
                    tasks[i].project_id = projectId /\ tasks[i].status = status })

\* C19: for every project list_projects returns, task_counts.total is the
\* number of tasks of the collection in the project, each per-status count is
\* the number of those with that status, and total = todo + in_progress +
\* done.
C19_TaskCounts ==
    (server = V2 /\ req = "list_projects") =>
        \A j \in 1..Len(res.body.projects) :
            LET p == res.body.projects[j]
                c == p.task_counts
            IN  /\ c.total = Cardinality({ i \in 1..Len(tasks) :
                                             tasks[i].project_id = p.id })
                /\ c.todo = CountOf(p.id, "todo")
                /\ c.in_progress = CountOf(p.id, "in_progress")
                /\ c.done = CountOf(p.id, "done")
                /\ c.total = c.todo + c.in_progress + c.done

\* C20: recent_tasks holds at most five tasks, all of the project
\* summarized, in non-increasing order of updated_at, and no task of the
\* project that is left out was updated later than one that is in it.
C20_RecentTasks ==
    Summarized =>
        LET recent == res.body.summary.recent_tasks
        IN  /\ Len(recent) <= 5
            /\ \A k \in 1..Len(recent) :
                  \E i \in 1..Len(SummarizedTasks) :
                     SummarizedTasks[i] = recent[k]
            /\ \A k \in 1..(Len(recent) - 1) :
                  recent[k].updated_at >= recent[k + 1].updated_at
            /\ \A i \in 1..Len(SummarizedTasks) :
                  SummarizedTasks[i].id \notin IdsOf(recent)
                  => \A k \in 1..Len(recent) :
                        SummarizedTasks[i].updated_at <= recent[k].updated_at

\* the summary of a project of six tasks lists five of them, not all updated
\* at the same time, and leaves out one that was updated earlier
C20_Witness ==
    /\ Summarized
    /\ Len(SummarizedTasks) = 6
    /\ Len(res.body.summary.recent_tasks) = 5
    /\ res.body.summary.recent_tasks[1].updated_at
       > res.body.summary.recent_tasks[5].updated_at
    /\ \E i \in 1..6 :
          /\ tasks[i].id \notin IdsOf(res.body.summary.recent_tasks)
          /\ tasks[i].updated_at < res.body.summary.recent_tasks[5].updated_at

\* every entity that is in the collection before and after the step and is
\* not the same after it carries the time of the step as its updated_at, and
\* no updated_at goes back
Refreshed(arr, arr2) ==
    \A i \in 1..Len(arr) : \A j \in 1..Len(arr2) :
        arr2[j].id = arr[i].id
        => /\ arr2[j] # arr[i] => arr2[j].updated_at = clock
           /\ arr2[j].updated_at >= arr[i].updated_at

\* C21: a request that changes a stored field of a project or task (the
\* subtasks of a parent task included) sets that entity's updated_at to the
\* time of the request; updated_at never decreases and is never earlier
\* than created_at.
C21_UpdatedAtRefreshed ==
    [][HandlesRequest
       => /\ Refreshed(projects, projects')
          /\ Refreshed(tasks, tasks')
          /\ \A i \in 1..Len(projects') :
                projects'[i].updated_at >= projects'[i].created_at
          /\ \A i \in 1..Len(tasks') :
                tasks'[i].updated_at >= tasks'[i].created_at]_vars

\* what tells one class of failure from another: the HTTP status and the
\* JSON-RPC error code
ResponseClass(r) == <<r.status, r.body.error.code>>

\* the tools/call names an id that is in neither collection
Unresolved(name, args) ==
    \/ /\ name \in {"create_task", "update_project", "delete_project"}
       /\ args.project_id \notin IdsOf(projects)
    \/ /\ name \in {"update_task", "delete_task"}
       /\ args.task_id \notin IdsOf(tasks)

\* C22: the HTTP server answers a tools/call whose project or task id does
\* not resolve with a failure of a class of its own, which is neither the
\* class of its answer to an unknown tool name nor that of its answer to an
\* internal fault; and its answer to an internal fault does not carry the
\* message of the error.
C22_NotFoundClass ==
    [][/\ \A name \in HttpTools \ {"get_project_summary"} :
             \A args \in HttpArgs(name) :
                (CallsTool(name, args) /\ Unresolved(name, args))
                => /\ Failed(res')
                   /\ ResponseClass(res')
                      # ResponseClass(catchResponse(Throw("Unknown tool", name).value))
                   /\ ResponseClass(res')
                      # ResponseClass(catchResponse(DestructureError))
       /\ (server = Http /\ req = "none" /\ toolsCallWithoutParams)
          => res'.body.error.message # DestructureError.message]_vars

\* the enumerations of the tool schemas
Statuses == {"todo", "in_progress", "done"}
Priorities == {"low", "medium", "high", "urgent"}

\* C23: every stored project and task has a status of {todo, in_progress,
\* done} and a priority of {low, medium, high, urgent}.
C23_EnumsHold ==
    /\ \A i \in 1..Len(projects) :
          projects[i].status \in Statuses /\ projects[i].priority \in Priorities
    /\ \A i \in 1..Len(tasks) :
          tasks[i].status \in Statuses /\ tasks[i].priority \in Priorities

\* C24: in the HTTP server, every task of the collection has the id of a
\* project of the collection as its project_id.
C24_TasksHaveProjects ==
    server = Http =>
        \A i \in 1..Len(tasks) : tasks[i].project_id \in IdsOf(projects)

\* a delete_project has removed a project without tasks, and the task of the
\* other project is still there
C24_Witness ==
    /\ server = Http
    /\ req = "delete_project"
    /\ res.status = 200
    /\ res.body.result.count = 0
    /\ Len(projects) = 1
    /\ Len(tasks) = 1
    /\ tasks[1].project_id = projects[1].id

\* the collections after the step are those before it less the project with
\* that id and the tasks in it, the rest as it was and in the order it was
OnlyProjectRemoved(id) ==
    /\ projects' = SelectSeq(projects, LAMBDA p : p.id # id)
    /\ tasks' = SelectSeq(tasks, LAMBDA t : t.project_id # id)

\* C25: a delete_project with cascade (in the HTTP server, every
\* delete_project) of an existing project reports as the number of tasks
\* removed the number of tasks that had the project's id as project_id, and
\* leaves every other project and every task of another project unchanged
\* and in the same relative order.
C25_CascadeCount ==
    [][/\ \A args \in DeleteProjectArgs :
             (/\ server = V2
              /\ handleDeleteProject(args)
              /\ DeleteTasksFlag(args)
              /\ args.id \in IdsOf(projects))
             => /\ Succeeded(res')
                /\ Len(res'.body.deleted.tasks) = Len(tasksInside(tasks, args.id))
                /\ OnlyProjectRemoved(args.id)
       /\ \A args \in HttpArgs("delete_project") :
             (/\ CallsTool("delete_project", args)
              /\ args.project_id \in IdsOf(projects))
             => /\ Succeeded(res')
                /\ res'.body.result.count
                   = Len(SelectSeq(tasks, LAMBDA t : t.project_id = args.project_id))
                /\ OnlyProjectRemoved(args.project_id)]_vars

\* C26: list_projects, list_tasks and get_project_summary leave both
\* collections as they were, the order of their elements and every field of
\* every entity included.
C26_ReadsChangeNothing ==
    [][(/\ server = V2
        /\ req = "none"
        /\ req' \in {"list_projects", "list_tasks", "get_project_summary"})
       => CollectionsUnchanged]_vars

\* list_tasks has listed a task under the new name of its project, and the
\* task stored still carries the name the project had when it was created
C26_Witness ==
    /\ server = V2
    /\ req = "list_tasks"
    /\ Len(tasks) = 1
    /\ Len(res.body.tasks) = 1
    /\ tasks[1].project_name = "Launch"
    /\ res.body.tasks[1].project_name = "Beta"

\* the step leaves every entity of the collection its id and created_at:
\* an id that is new to the collection is the id the step generated, an
\* entity that was in the collection has the created_at it had, and where
\* nothing was added or removed every position holds the entity it held
Immutable(arr, arr2) ==
    /\ IdsOf(arr2) \ IdsOf(arr) \subseteq {uuidv4(nextId)}
    /\ \A i \in 1..Len(arr) : \A j \in 1..Len(arr2) :
          arr2[j].id = arr[i].id => arr2[j].created_at = arr[i].created_at
    /\ Len(arr2) = Len(arr) => \A i \in 1..Len(arr) : arr2[i].id = arr[i].id

\* the tasks that the step gives another project_id
Moved ==
    { i \in 1..Len(tasks) :
        \E j \in 1..Len(tasks') :
           tasks'[j].id = tasks[i].id /\ tasks'[j].project_id # tasks[i].project_id }

\* C27: no request changes the id or the created_at of a project or task
\* that exists, or the parent_task_id of a task; the project_id of a task is
\* changed only by a move_task that succeeds, and not by an update_task,
\* whatever fields it carries.
C27_ImmutableFields ==
    [][(server = V2 /\ HandlesRequest)
       => /\ Immutable(projects, projects')
          /\ Immutable(tasks, tasks')
          /\ \A i \in 1..Len(tasks) : \A j \in 1..Len(tasks') :
                tasks'[j].id = tasks[i].id
                => tasks'[j].parent_task_id = tasks[i].parent_task_id
          /\ Moved # {} => (req' = "move_task" /\ Succeeded(res'))]_vars

\* C28: in the projects+tasks server, the project_name stored in a task is
\* the name of the project whose id is the task's project_id, whenever that
\* project is in the collection.
C28_ProjectNameCurrent ==
    server = V2 =>
        \A i \in 1..Len(tasks) : \A j \in 1..Len(projects) :
            projects[j].id = tasks[i].project_id
            => tasks[i].project_name = projects[j].name

\* the parent_task_id of the task with that id; null for an id that is not
\* the id of a task of the collection
ParentId(id) ==
    IF id \in IdsOf(tasks) THEN TaskWithId(tasks, id).parent_task_id ELSE Null

\* the id reached from id by following parent_task_id n times
RECURSIVE AncestorAt(_, _)
AncestorAt(id, n) == IF n = 0 THEN id ELSE ParentId(AncestorAt(id, n - 1))

\* C29: following parent_task_id from a task never leads back to the task,
\* no task is its own parent, and no id is twice in the subtasks of a task.
C29_ParentsAcyclic ==
    server = V2 =>
        \A i \in 1..Len(tasks) :
            /\ tasks[i].parent_task_id # tasks[i].id
            /\ \A n \in 1..Len(tasks) : AncestorAt(tasks[i].id, n) # tasks[i].id
            /\ \A k, l \in 1..Len(tasks[i].subtasks) :
                  tasks[i].subtasks[k] = tasks[i].subtasks[l] => k = l

\* three tasks in a chain: the third is a subtask of the second, which is a
\* subtask of the first
C29_Witness ==
    /\ server = V2
    /\ Len(tasks) = 3
    /\ tasks[3].parent_task_id = tasks[2].id
    /\ tasks[2].parent_task_id = tasks[1].id
    /\ tasks[1].subtasks = <<tasks[2].id>>
    /\ tasks[2].subtasks = <<tasks[3].id>>

\* the tasks of the collection whose parent_id is that id
ChildrenOf(id) == { tasks[j] : j \in { j \in 1..Len(tasks) : tasks[j].parent_id = id } }

\* C30: in the tasks-only server, the subtasks of every task P of the
\* collection are exactly the ids of the tasks of the collection whose
\* parent_id is P.id, and get_task of P answers with exactly those tasks as
\* its subtasks.
C30_SubtasksMatchChildrenV1 ==
    server = V1 =>
        /\ \A i \in 1..Len(tasks) :
              { tasks[i].subtasks[k] : k \in 1..Len(tasks[i].subtasks) }
              = { t.id : t \in ChildrenOf(tasks[i].id) }
        /\ (req = "get_task" /\ res.status = 200)
           => LET listed == res.body.task.subtasks
              IN  /\ { listed[k] : k \in 1..Len(listed) }
                     = ChildrenOf(res.body.task.id)
                  /\ Len(listed) = Cardinality(ChildrenOf(res.body.task.id))

\* get_task has answered with the one subtask that is left of a task of
\* which another subtask was deleted
C30_Witness ==
    /\ server = V1
    /\ req = "get_task"
    /\ res.status = 200
    /\ Len(res.body.task.subtasks) = 1
    /\ res.body.task.subtasks[1].id = uuidv4(3)
    /\ Len(tasks) = 2
    /\ nextId = 4

====
